---------------------------- MODULE Spec2Model ----------------------------
(***************************************************************************)
(* Model of the relay hub of src/server/server.go.                         *)
(*                                                                         *)
(* The hub goroutine (Hub.handle) is the serializer: it selects on three   *)
(* unbuffered channels (connect, disconnect, messagesChannel).  Every      *)
(* connection has a reader goroutine (Hub.read), a writer goroutine        *)
(* (Hub.write) and an unbuffered channel client.data between the hub and   *)
(* the writer.  A send on an unbuffered channel completes only together    *)
(* with the matching receive, so every channel operation below is one      *)
(* joint step of the sender and the receiver.                              *)
(*                                                                         *)
(* Byte strings are held run-length encoded: a string is a sequence of     *)
(* runs [c |-> character, n |-> repetitions >= 1] in which neighbouring    *)
(* runs have different characters.  The encoding is canonical, so string   *)
(* equality is equality of the encodings, and a body of a million bytes    *)
(* is one run.                                                             *)
(***************************************************************************)
EXTENDS Integers, Sequences, FiniteSets, TLC

\* ------------------------------------------------------------------------
\* Program constants (server.go:14-17)

maxBodySize == 1024000

maxReceiversPerMessage == 255

\* ------------------------------------------------------------------------
\* Bounds of the model

\* connection slots: serveWS is entered at most NumConns times
NumConns == 2

\* frames the readers read successfully, over all connections
MaxReads == 2

Conns == 1..NumConns

\* ------------------------------------------------------------------------
\* Byte strings

Run(c, n) == [c |-> c, n |-> n]

\* s followed by t (Go: append(s, t...), s + t)
Cat(s, t) ==
    IF s = <<>> THEN t
    ELSE IF t = <<>> THEN s
    ELSE IF s[Len(s)].c = t[1].c
         THEN SubSeq(s, 1, Len(s) - 1)
                \o <<Run(t[1].c, s[Len(s)].n + t[1].n)>>
                \o Tail(t)
         ELSE s \o t

\* the string whose characters are the elements of the tuple chars
RECURSIVE S(_)
S(chars) ==
    IF chars = <<>> THEN <<>>
    ELSE Cat(<<Run(Head(chars), 1)>>, S(Tail(chars)))

\* c repeated n times
Rep(c, n) == IF n = 0 THEN <<>> ELSE <<Run(c, n)>>

\* Go: len(s), the number of bytes
RECURSIVE LenBetween(_, _, _)
LenBetween(s, lo, hi) ==
    IF lo > hi THEN 0
    ELSE IF lo = hi THEN s[lo].n
    ELSE LET mid == (lo + hi) \div 2
         IN  LenBetween(s, lo, mid) + LenBetween(s, mid + 1, hi)

ByteLen(s) == LenBetween(s, 1, Len(s))

\* Go: len(s) > 0; every run holds at least one byte
NonEmpty(s) == s # <<>>

\* Go: strings.HasPrefix(s, p)
HasPrefix(s, p) ==
    \/ p = <<>>
    \/ /\ Len(p) <= Len(s)
       /\ \A i \in 1..(Len(p) - 1) : s[i] = p[i]
       /\ s[Len(p)].c = p[Len(p)].c
       /\ s[Len(p)].n >= p[Len(p)].n

\* Go: strings.TrimPrefix(s, p): s without the leading p, or s itself
TrimPrefix(s, p) ==
    IF p = <<>> \/ ~HasPrefix(s, p) THEN s
    ELSE LET k    == Len(p)
             left == s[k].n - p[k].n
         IN  Rep(s[k].c, left) \o SubSeq(s, k + 1, Len(s))

\* Go: strings.Split(s, sep) for a one-byte separator: the pieces between
\* the separators, in order; Split("", sep) is one empty piece.
RECURSIVE SplitBetween(_, _, _, _)
SplitBetween(s, sep, lo, hi) ==
    IF lo > hi THEN << <<>> >>
    ELSE IF lo = hi
         THEN IF s[lo].c = sep
              THEN [i \in 1..(s[lo].n + 1) |-> <<>>]
              ELSE << <<s[lo]>> >>
    ELSE LET mid == (lo + hi) \div 2
             l   == SplitBetween(s, sep, lo, mid)
             r   == SplitBetween(s, sep, mid + 1, hi)
         IN  SubSeq(l, 1, Len(l) - 1)
               \o << l[Len(l)] \o r[1] >>
               \o Tail(r)

Split(s, sep) == SplitBetween(s, sep, 1, Len(s))

Digits == <<"0", "1", "2", "3", "4", "5", "6", "7", "8", "9">>

IsDigit(c) == \E d \in 1..10 : Digits[d] = c

DigitVal(c) == (CHOOSE d \in 1..10 : Digits[d] = c) - 1

RECURSIVE Pow10(_)
Pow10(n) == IF n = 0 THEN 1 ELSE 10 * Pow10(n - 1)

\* the number written by the digit runs ds, after the digits worth acc
RECURSIVE DigitsVal(_, _)
DigitsVal(ds, acc) ==
    IF ds = <<>> THEN acc
    ELSE LET r == Head(ds)
         IN  DigitsVal(Tail(ds),
                       acc * Pow10(r.n) + DigitVal(r.c) * ((Pow10(r.n) - 1) \div 9))

\* a faulty variant of Atoi: the leading digits are the number, whatever
\* follows them (C's atoi)
AtoiDigitPrefix(s) ==
    LET n  == CHOOSE k \in 0..Len(s) :
                 /\ \A i \in 1..k : IsDigit(s[i].c)
                 /\ k < Len(s) => ~IsDigit(s[k + 1].c)
        ds == SubSeq(s, 1, n)
    IN  IF ds = <<>> THEN [ok |-> FALSE, val |-> 0]
        ELSE [ok |-> TRUE, val |-> DigitsVal(ds, 0)]

\* Go: strconv.Atoi(s): an optional sign and at least one decimal digit;
\* on a syntax error the value is 0.  (Tokens of the model stay within the
\* range of int, so the range error does not arise.)
Atoi(s) ==
    LET signed == s # <<>> /\ s[1].c \in {"+", "-"}
        ds     == IF signed THEN TrimPrefix(s, <<Run(s[1].c, 1)>>) ELSE s
        ok     == ds # <<>> /\ \A i \in 1..Len(ds) : IsDigit(ds[i].c)
    IN  IF ~ok THEN [ok |-> FALSE, val |-> 0]
        ELSE [ok  |-> TRUE,
              val |-> IF signed /\ s[1].c = "-"
                      THEN 0 - DigitsVal(ds, 0) ELSE DigitsVal(ds, 0)]

\* a faulty variant of NatToStr: the digits least significant first
RECURSIVE NatToStrReversed(_)
NatToStrReversed(n) ==
    IF n < 10 THEN <<Run(Digits[n + 1], 1)>>
    ELSE Cat(<<Run(Digits[(n % 10) + 1], 1)>>, NatToStrReversed(n \div 10))

\* the decimal digits of n >= 0, most significant first
RECURSIVE NatToStr(_)
NatToStr(n) ==
    IF n < 10 THEN <<Run(Digits[n + 1], 1)>>
    ELSE Cat(NatToStr(n \div 10), <<Run(Digits[(n % 10) + 1], 1)>>)

\* Go: fmt.Sprint(n), fmt.Sprintf("%d", n)
Sprint(n) == IF n < 0 THEN Cat(S(<<"-">>), NatToStr(0 - n)) ELSE NatToStr(n)

\* Go: getPortFromAddress(a): the address must split on ":" into exactly
\* two parts, the second a number.
getPortFromAddress(a) ==
    LET portStr == Split(a, ":")
    IN  IF Len(portStr) # 2 THEN [ok |-> FALSE, val |-> 0]
        ELSE Atoi(portStr[2])


\* ------------------------------------------------------------------------
\* Literals of the program

relayLit == S(<<"r", "e", "l", "a", "y">>)

relayBar == S(<<"r", "e", "l", "a", "y", "|">>)

usersEq == S(<<"u", "s", "e", "r", "s", "=">>)

bodyEq == S(<<"b", "o", "d", "y", "=">>)

idLit == S(<<"i", "d">>)

listLit == S(<<"l", "i", "s", "t">>)

\* "relay message should contain users and body fields"
errFields ==
    S(<<"r", "e", "l", "a", "y", " ", "m", "e", "s", "s", "a", "g", "e", " ",
        "s", "h", "o", "u", "l", "d", " ", "c", "o", "n", "t", "a", "i", "n",
        " ", "u", "s", "e", "r", "s", " ", "a", "n", "d", " ", "b", "o", "d",
        "y", " ", "f", "i", "e", "l", "d", "s">>)

\* "relay message should contain users field"
errUsers ==
    S(<<"r", "e", "l", "a", "y", " ", "m", "e", "s", "s", "a", "g", "e", " ",
        "s", "h", "o", "u", "l", "d", " ", "c", "o", "n", "t", "a", "i", "n",
        " ", "u", "s", "e", "r", "s", " ", "f", "i", "e", "l", "d">>)

\* "relay message should contain a body field"
errBody ==
    S(<<"r", "e", "l", "a", "y", " ", "m", "e", "s", "s", "a", "g", "e", " ",
        "s", "h", "o", "u", "l", "d", " ", "c", "o", "n", "t", "a", "i", "n",
        " ", "a", " ", "b", "o", "d", "y", " ", "f", "i", "e", "l", "d">>)

\* "unexpected message format"
errFormat ==
    S(<<"u", "n", "e", "x", "p", "e", "c", "t", "e", "d", " ", "m", "e", "s",
        "s", "a", "g", "e", " ", "f", "o", "r", "m", "a", "t">>)

\* "max receivers per message exceeded"
errReceivers ==
    S(<<"m", "a", "x", " ", "r", "e", "c", "e", "i", "v", "e", "r", "s", " ",
        "p", "e", "r", " ", "m", "e", "s", "s", "a", "g", "e", " ", "e", "x",
        "c", "e", "e", "d", "e", "d">>)

\* "message body can't exceed 1024kb"
errSize ==
    S(<<"m", "e", "s", "s", "a", "g", "e", " ", "b", "o", "d", "y", " ", "c",
        "a", "n", "'", "t", " ", "e", "x", "c", "e", "e", "d", " ", "1", "0",
        "2", "4", "k", "b">>)

\* "userid not found: "
errNotFound ==
    S(<<"u", "s", "e", "r", "i", "d", " ", "n", "o", "t", " ", "f", "o", "u",
        "n", "d", ":", " ">>)

\* "command not recognized"
errCommand ==
    S(<<"c", "o", "m", "m", "a", "n", "d", " ", "n", "o", "t", " ", "r", "e",
        "c", "o", "g", "n", "i", "z", "e", "d">>)

\* "-> "
arrow == S(<<"-", ">", " ">>)

\* "users list: \n"
listHead ==
    S(<<"u", "s", "e", "r", "s", " ", "l", "i", "s", "t", ":", " ", "\n">>)


\* ------------------------------------------------------------------------
\* Remote addresses (net.Conn.RemoteAddr().String()) the peers connect from

\* "10.0.0.1:51"
addrP51 == S(<<"1", "0", ".", "0", ".", "0", ".", "1", ":", "5", "1">>)

\* "10.0.0.2:51": another host, the same source port
addrQ51 == S(<<"1", "0", ".", "0", ".", "0", ".", "2", ":", "5", "1">>)

\* "10.0.0.1:62"
addrP62 == S(<<"1", "0", ".", "0", ".", "0", ".", "1", ":", "6", "2">>)

\* "[::1]:73": an IPv6 peer
addrV6 == S(<<"[", ":", ":", "1", "]", ":", "7", "3">>)

\* ------------------------------------------------------------------------
\* State
\*
\* The stream itself (client.ws) is outside the model: of WriteMessage only
\* the time it takes is kept, of Close only that it happened.

VARIABLES
    traffic,     \* which peers connect and which frames they send in this run:
                 \*   "hub", "relay", "peers", "list" or "fifo" (fixed by Init)
    connPc,      \* serveWS per slot: "idle", "connecting" (at hub.connect <- client), "open"
    addr,        \* client.ws.RemoteAddr().String() per slot, from the hub's first look at it
    readerPc,    \* Hub.read: "none", "read", "sendMsg" (at hub.messagesChannel <- ...),
                 \*   "sendDisc" (at hub.disconnect <- client), "done"
    reads,       \* frames read so far, over all connections
    writerPc,    \* Hub.write: "none", "recv", "write" (in WriteMessage), "done"
    dataClosed,  \* close(client.data) was called
    clients,     \* hub.clients: port -> slot
    hubPc,       \* Hub.handle: "select", "send" (at a client.data <- ...),
                 \*   "sendDisconnect" (at hub.disconnect <- ...), "panic"
    outbox,      \* the sends the running handler still has to make, in order
    cur,         \* history: the event the hub received last
    emitted,     \* history: the sends of that event's handler that completed, in order
    hist         \* history, kept in the runs that observe it (traffic "fifo"), per slot:
                 \*   pending: the frames Hub.read took to hub.messagesChannel that
                 \*     hub.handleMessage has not been called with yet, oldest first

vars == <<traffic, connPc, addr, readerPc, reads, writerPc, dataClosed,
          clients, hubPc, outbox, cur, emitted, hist>>

\* the run keeps the histories
Observed == traffic = "fifo"

\* the histories become h in the runs that keep them
Record(h) == hist' = IF Observed THEN h ELSE hist

noHist == [pending |-> [c \in Conns |-> <<>>]]

\* the run's inputs
env == <<traffic>>

connVars == <<connPc, addr>>

readerVars == <<readerPc, reads>>

\* client.ws.Close() was called: Hub.read closes the stream as it ends
wsClosed(c) == readerPc[c] = "done"

\* ------------------------------------------------------------------------
\* The handlers' computations

\* a faulty variant of getAllUsersExcept: the requester is not left out
getAllUsers(user) ==
    LET keys == DOMAIN clients
        n    == Cardinality(keys)
    IN  { [i \in 1..n |-> clients[ord[i]]] :
            ord \in {f \in [1..n -> keys] : \A i, j \in 1..n : f[i] = f[j] => i = j} }

\* Go: hub.getAllUsersExcept(user): the registry's clients whose key is not
\* user.  The slice follows Go's map iteration order, which is unspecified:
\* the result is the set of orders it may have.
getAllUsersExcept(user) ==
    LET keys == {k \in DOMAIN clients : k # user}
        n    == Cardinality(keys)
    IN  { [i \in 1..n |-> clients[ord[i]]] :
            ord \in {f \in [1..n -> keys] : \A i, j \in 1..n : f[i] = f[j] => i = j} }

\* Go: clientsToBytes(cs), the listing of cs from index i on
RECURSIVE clientsToBytesFrom(_, _)
clientsToBytesFrom(cs, i) ==
    IF i > Len(cs) THEN <<>>
    ELSE LET id == getPortFromAddress(addr[cs[i]])
         IN  Cat(Cat(Cat(Cat(Sprint(i - 1), S(<<")", " ">>)), Sprint(id.val)),
                     S(<<"\n">>)),
                 clientsToBytesFrom(cs, i + 1))

clientsToBytes(cs) == Cat(listHead, clientsToBytesFrom(cs, 1))

Send(to, frame) == [to |-> to, frame |-> frame]

\* a faulty variant of relayFanOut: a token that is not in the registry is
\* reported to the client of the registry's lowest identity, not to the sender
relayFanOutMissBroadcast(c, destList, body) ==
    LET senderID == getPortFromAddress(addr[c])
        first    == CHOOSE k \in DOMAIN clients : \A j \in DOMAIN clients : k <= j
    IN  [i \in 1..Len(destList) |->
            LET u      == destList[i]
                userID == Atoi(u).val
            IN  IF userID \notin DOMAIN clients
                THEN Send(clients[first], Cat(errNotFound, u))
                ELSE Send(clients[userID],
                          Cat(Cat(Sprint(senderID.val), arrow), body))]

\* Go: the loop of hub.parseRelayString (lines 160-172): one send per
\* destination token, in list order
relayFanOut(c, destList, body) ==
    LET senderID == getPortFromAddress(addr[c])
    IN  [i \in 1..Len(destList) |->
            LET u      == destList[i]
                userID == Atoi(u).val
            IN  IF userID \notin DOMAIN clients
                THEN Send(c, Cat(errNotFound, u))
                ELSE Send(clients[userID],
                          Cat(Cat(Sprint(senderID.val), arrow), body))]

\* a faulty variant of tooManyReceivers: the limit itself is refused
tooManyReceiversAtLimit(destList) == Len(destList) >= maxReceiversPerMessage

\* Go: the receiver-count check of hub.parseRelayString (line 150)
tooManyReceivers(destList) == Len(destList) > maxReceiversPerMessage

\* a faulty variant of bodyTooLarge: the limit itself is refused
bodyTooLargeAtLimit(body) == ByteLen(body) >= maxBodySize

\* Go: the body-size check of hub.parseRelayString (line 155)
bodyTooLarge(body) == ByteLen(body) > maxBodySize

\* a faulty variant of parseRelayString: the first field's name is checked
\* before the number of fields
parseRelayStringUsersFirst(c, contents) ==
    LET relay     == TrimPrefix(contents, relayBar)
        relayArgs == Split(relay, ",")
    IN  IF ~HasPrefix(relayArgs[1], usersEq) THEN <<Send(c, errUsers)>>
        ELSE IF Len(relayArgs) # 2 THEN <<Send(c, errFields)>>
        ELSE IF ~HasPrefix(relayArgs[2], bodyEq) THEN <<Send(c, errBody)>>
        ELSE LET users    == TrimPrefix(relayArgs[1], usersEq)
                 body     == TrimPrefix(relayArgs[2], bodyEq)
                 destList == Split(users, ";")
             IN  IF Len(destList) = 0 THEN <<Send(c, errFormat)>>
                 ELSE IF tooManyReceivers(destList) THEN <<Send(c, errReceivers)>>
                 ELSE IF bodyTooLarge(body) THEN <<Send(c, errSize)>>
                 ELSE relayFanOut(c, destList, body)

\* Go: hub.parseRelayString(message): the sends it makes, in order
parseRelayString(c, contents) ==
    LET relay     == TrimPrefix(contents, relayBar)
        relayArgs == Split(relay, ",")
    IN  IF Len(relayArgs) # 2 THEN <<Send(c, errFields)>>
        ELSE IF ~HasPrefix(relayArgs[1], usersEq) THEN <<Send(c, errUsers)>>
        ELSE IF ~HasPrefix(relayArgs[2], bodyEq) THEN <<Send(c, errBody)>>
        ELSE LET users    == TrimPrefix(relayArgs[1], usersEq)
                 body     == TrimPrefix(relayArgs[2], bodyEq)
                 destList == Split(users, ";")
             IN  IF Len(destList) = 0 THEN <<Send(c, errFormat)>>
                 ELSE IF tooManyReceivers(destList) THEN <<Send(c, errReceivers)>>
                 ELSE IF bodyTooLarge(body) THEN <<Send(c, errSize)>>
                 ELSE relayFanOut(c, destList, body)

\* Go: hub.handleMessage(hubM): disc when the handler goes to
\* hub.disconnect <- client, else the sends it makes, in order.  usersList
\* is the slice getAllUsersExcept returns.
handleMessage(c, contents, usersList) ==
    LET port == getPortFromAddress(addr[c])
    IN  IF ~port.ok THEN [disc |-> TRUE, sends |-> <<>>]
        ELSE IF contents = idLit
             THEN [disc |-> FALSE, sends |-> <<Send(c, Sprint(port.val))>>]
        ELSE IF contents = listLit
             THEN [disc |-> FALSE, sends |-> <<Send(c, clientsToBytes(usersList))>>]
        ELSE IF HasPrefix(contents, relayLit)
             THEN [disc |-> FALSE, sends |-> parseRelayString(c, contents)]
        ELSE [disc |-> FALSE, sends |-> <<Send(c, errCommand)>>]


\* ------------------------------------------------------------------------
\* Frames the peers send

\* ""
frameEmpty == <<>>

\* "relay|users=51;62,body=hi"
frameRelay5162 ==
    S(<<"r", "e", "l", "a", "y", "|", "u", "s", "e", "r", "s", "=", "5", "1",
        ";", "6", "2", ",", "b", "o", "d", "y", "=", "h", "i">>)

\* "relay|users=51,body=yo"
frameRelay51 ==
    S(<<"r", "e", "l", "a", "y", "|", "u", "s", "e", "r", "s", "=", "5", "1",
        ",", "b", "o", "d", "y", "=", "y", "o">>)

\* "relay|users=9999,body=hi"
frameRelay9999 ==
    S(<<"r", "e", "l", "a", "y", "|", "u", "s", "e", "r", "s", "=", "9", "9",
        "9", "9", ",", "b", "o", "d", "y", "=", "h", "i">>)

\* "relay|" "users=" users "," "body=" body, and the same frame with other
\* field names
relayFrame(usersField, users, bodyField, body) ==
    Cat(Cat(Cat(Cat(relayBar, usersField), users), S(<<",">>)), Cat(bodyField, body))

\* "user=", "text=": misspelt field names
userEq == S(<<"u", "s", "e", "r", "=">>)

textEq == S(<<"t", "e", "x", "t", "=">>)

\* "51;51;...;51": n destination tokens, n >= 1
tokens51(n) ==
    [i \in 1..(3 * n - 1) |->
        Run(IF i % 3 = 1 THEN "5" ELSE IF i % 3 = 2 THEN "1" ELSE ";", 1)]

\* ";;...;": n empty destination tokens, n >= 2
tokensEmpty(n) == Rep(";", n - 1)

\* a body of n bytes
bodyOf(n) == Rep("x", n)

\* "relay|body=x": one field
frameBodyOnly == Cat(relayBar, Cat(bodyEq, bodyOf(1)))

\* "relay|users=51,body=x,x": three fields
frameThreeFields ==
    Cat(relayFrame(usersEq, tokens51(1), bodyEq, bodyOf(1)), S(<<",", "x">>))

\* two fields, neither well named, too many receivers, too large a body
frameNoUsers ==
    relayFrame(userEq, tokensEmpty(maxReceiversPerMessage + 1), textEq,
               bodyOf(maxBodySize + 1))

\* as frameNoUsers, with the users field well named
frameNoBody ==
    relayFrame(usersEq, tokensEmpty(maxReceiversPerMessage + 1), textEq,
               bodyOf(maxBodySize + 1))

\* as frameNoBody, with the body field well named
frameManyAndLarge ==
    relayFrame(usersEq, tokensEmpty(maxReceiversPerMessage + 1), bodyEq,
               bodyOf(maxBodySize + 1))

\* "relay|users=51,body=x...x": a body one byte over the limit
frameBodyOver == relayFrame(usersEq, tokens51(1), bodyEq, bodyOf(maxBodySize + 1))

\* "relay|users=51,body=x...x": a body of exactly the limit
frameBodyMax == relayFrame(usersEq, tokens51(1), bodyEq, bodyOf(maxBodySize))

\* "relay|users=51;...;51,body=hi": one receiver over the limit
frameReceiversOver ==
    relayFrame(usersEq, tokens51(maxReceiversPerMessage + 1), bodyEq, S(<<"h", "i">>))

\* "relay|users=51;...;51,body=hi": exactly the limit of receivers
frameReceiversMax ==
    relayFrame(usersEq, tokens51(maxReceiversPerMessage), bodyEq, S(<<"h", "i">>))

\* the frames and peers of the hub's everyday traffic
HubFrames == {frameEmpty, idLit, frameRelay51, frameRelay5162, frameRelay9999}

HubPeers == {addrP51, addrP62, addrV6}

\* "relay|users=abc,body=hi": a destination token that is a word
frameTokenWord == relayFrame(usersEq, S(<<"a", "b", "c">>), bodyEq, S(<<"h", "i">>))

\* "relay|users=,body=hi": an empty users field, which splits into one
\* empty token
frameTokenNone == relayFrame(usersEq, <<>>, bodyEq, S(<<"h", "i">>))

\* "relay|users=51x,body=hi": a registered identity followed by a letter
frameTokenSuffix == relayFrame(usersEq, S(<<"5", "1", "x">>), bodyEq, S(<<"h", "i">>))

\* "relay|users= 62,body=hi": a registered identity after a space
frameTokenSpace == relayFrame(usersEq, S(<<" ", "6", "2">>), bodyEq, S(<<"h", "i">>))

\* "relay|users=51x;62,body=hi": a token that is no integer, then a
\* registered identity
frameTokenMixed ==
    relayFrame(usersEq, S(<<"5", "1", "x", ";", "6", "2">>), bodyEq, S(<<"h", "i">>))

\* relays: malformed ones, one for each validation step that rejects first,
\* relays at the limits of receiver count and body size, and well-formed
\* relays with destination tokens that are not integers
RelayFrames == {frameBodyOnly, frameThreeFields, frameNoUsers, frameNoBody,
                frameManyAndLarge, frameBodyOver, frameBodyMax,
                frameReceiversOver, frameReceiversMax,
                frameTokenWord, frameTokenNone, frameTokenSuffix,
                frameTokenSpace, frameTokenMixed}

RelayPeers == {addrP51, addrP62}

\* listings and a relay
ListFrames == {listLit, frameRelay51}

\* the same, from peers of which two have the same source port
PeersFrames == {listLit, frameRelay51}

PeersPeers == {addrP51, addrP62, addrQ51}

\* "hello"
frameHello == S(<<"h", "e", "l", "l", "o">>)

\* frames with different answers, an empty frame and a relay
FifoFrames == {frameEmpty, idLit, frameHello, frameRelay51}

\* the frames the peers send in this run
frames ==
    CASE traffic = "relay" -> RelayFrames
      [] traffic = "peers" -> PeersFrames
      [] traffic = "list" -> ListFrames
      [] traffic = "fifo" -> FifoFrames
      [] OTHER -> HubFrames

\* the remote addresses the peers connect from in this run
peers ==
    CASE traffic = "relay" -> RelayPeers
      [] traffic = "peers" -> PeersPeers
      [] traffic = "fifo" -> RelayPeers
      [] traffic = "list" -> RelayPeers
      [] OTHER -> HubPeers

\* ------------------------------------------------------------------------
\* Initial state: the hub is constructed (InitHub), nobody has connected

Event(kind, c, contents) == [kind |-> kind, client |-> c, contents |-> contents]

InitWith(tr) ==
    /\ traffic = tr
    /\ connPc = [c \in Conns |-> "idle"]
    /\ addr = [c \in Conns |-> <<>>]
    /\ readerPc = [c \in Conns |-> "none"]
    /\ reads = 0
    /\ writerPc = [c \in Conns |-> "none"]
    /\ dataClosed = [c \in Conns |-> FALSE]
    /\ clients = [p \in {} |-> 0]
    /\ hubPc = "select"
    /\ outbox = <<>>
    /\ cur = Event("none", 0, <<>>)
    /\ emitted = <<>>
    /\ hist = noHist

Init == InitWith("hub")

\* ------------------------------------------------------------------------
\* Actions

\* a panic in the hub goroutine ends the process, and every goroutine with it
Running == hubPc # "panic"

\* a faulty variant of HubAtSelect: the hub also receives events while a
\* handler is at a send
HubAtSelectOrSending == hubPc \in {"select", "send"}

\* Hub.handle is at its select, ready to receive the next event
HubAtSelect == hubPc = "select"

\* What a peer sends is drawn where the program first looks at it: the
\* remote address in Hub.handle's connect case, a frame's emptiness in
\* Hub.read, a frame's content in hub.handleMessage.  In the runs that keep
\* the histories the frame is drawn in Hub.read, and hub.handleMessage gets
\* the reader's msg, the frame it took to the channel last.

\* a faulty variant of Accept: serveWS starts Hub.read before it sends the
\* client on hub.connect
AcceptStartsReader(c) ==
    /\ Running
    /\ connPc[c] = "idle"
    /\ \A d \in Conns : d < c => connPc[d] # "idle"
    /\ connPc' = [connPc EXCEPT ![c] = "connecting"]
    /\ readerPc' = [readerPc EXCEPT ![c] = "read"]
    /\ UNCHANGED <<env, hist, addr, reads, writerPc, dataClosed, clients, hubPc,
                   outbox, cur, emitted>>

\* serveWS up to "hub.connect <- client": a peer has connected.  Slots are
\* taken in order.
Accept(c) ==
    /\ Running
    /\ connPc[c] = "idle"
    /\ \A d \in Conns : d < c => connPc[d] # "idle"
    /\ connPc' = [connPc EXCEPT ![c] = "connecting"]
    /\ UNCHANGED <<env, hist, addr, readerVars, writerPc, dataClosed, clients, hubPc,
                   outbox, cur, emitted>>

\* Hub.handle, case connection := <-hub.connect, for a peer at address a,
\* together with the rest of serveWS (go hub.read, go hub.write).  No two
\* open connections of one listener have the same remote address.  On an
\* address error the hub goes to "hub.disconnect <- connection", a send on
\* an unbuffered channel whose only receiver is the hub itself.
HubConnect(c, a) ==
    /\ Running
    /\ HubAtSelect
    /\ connPc[c] = "connecting"
    /\ a \in peers
    /\ \A d \in Conns : connPc[d] = "open" /\ ~wsClosed(d) => addr[d] # a
    /\ LET port == getPortFromAddress(a)
       IN  IF ~port.ok
           THEN /\ hubPc' = "sendDisconnect"
                /\ UNCHANGED clients
           ELSE /\ clients' = [p \in DOMAIN clients \cup {port.val} |->
                                 IF p = port.val THEN c ELSE clients[p]]
                /\ UNCHANGED hubPc
    /\ addr' = [addr EXCEPT ![c] = a]
    /\ connPc' = [connPc EXCEPT ![c] = "open"]
    /\ readerPc' = [readerPc EXCEPT ![c] = "read"]
    /\ writerPc' = [writerPc EXCEPT ![c] = "recv"]
    /\ cur' = Event("connect", c, <<>>)
    /\ emitted' = <<>>
    /\ UNCHANGED <<env, hist, reads, dataClosed, outbox>>

\* a faulty variant of ReaderRead: the reader does not wait for the hub to
\* take its frame before it reads the next one
ReaderReadAhead(c, empty) ==
    /\ Running
    /\ readerPc[c] \in {"read", "sendMsg"}
    /\ reads < MaxReads
    /\ \E msg \in frames :
          /\ NonEmpty(msg) = ~empty
          /\ Record(IF empty THEN hist
                    ELSE [hist EXCEPT !.pending[c] = Append(@, msg)])
    /\ reads' = reads + 1
    /\ readerPc' = [readerPc EXCEPT ![c] = IF empty THEN @ ELSE "sendMsg"]
    /\ UNCHANGED <<env, connVars, writerPc, dataClosed, clients, hubPc, outbox,
                   cur, emitted>>

\* Hub.read: client.ws.ReadMessage() returns a frame; a non-empty frame is
\* taken to "hub.messagesChannel <- ...", an empty one is dropped
ReaderRead(c, empty) ==
    /\ Running
    /\ readerPc[c] = "read"
    /\ reads < MaxReads
    /\ \E msg \in frames :
          /\ NonEmpty(msg) = ~empty
          /\ Record(IF empty THEN hist
                    ELSE [hist EXCEPT !.pending[c] = Append(@, msg)])
    /\ reads' = reads + 1
    /\ readerPc' = [readerPc EXCEPT ![c] = IF empty THEN "read" ELSE "sendMsg"]
    /\ UNCHANGED <<env, connVars, writerPc, dataClosed, clients, hubPc, outbox,
                   cur, emitted>>

\* Hub.read: client.ws.ReadMessage() returns an error; the reader goes to
\* "hub.disconnect <- client"
ReaderError(c) ==
    /\ Running
    /\ readerPc[c] = "read"
    /\ readerPc' = [readerPc EXCEPT ![c] = "sendDisc"]
    /\ UNCHANGED <<env, hist, connVars, reads, writerPc, dataClosed, clients, hubPc,
                   outbox, cur, emitted>>

\* a faulty variant of HubDisconnect: the reader does not end after its
\* Disconnect was received, it sends the event again
HubDisconnectRepeated(c) ==
    /\ Running
    /\ HubAtSelect
    /\ readerPc[c] = "sendDisc"
    /\ IF dataClosed[c]
       THEN /\ hubPc' = "panic"
            /\ UNCHANGED dataClosed
       ELSE /\ dataClosed' = [dataClosed EXCEPT ![c] = TRUE]
            /\ UNCHANGED hubPc
    /\ cur' = Event("disconnect", c, <<>>)
    /\ emitted' = <<>>
    /\ UNCHANGED <<env, hist, connVars, reads, readerPc, writerPc, clients,
                   outbox>>

\* a faulty variant of HubDisconnect: Hub.read lacks the return after its
\* Disconnect, the reader goes on reading
HubDisconnectReaderGoesOn(c) ==
    /\ Running
    /\ HubAtSelect
    /\ readerPc[c] = "sendDisc"
    /\ IF dataClosed[c]
       THEN /\ hubPc' = "panic"
            /\ UNCHANGED dataClosed
       ELSE /\ dataClosed' = [dataClosed EXCEPT ![c] = TRUE]
            /\ UNCHANGED hubPc
    /\ readerPc' = [readerPc EXCEPT ![c] = "read"]
    /\ cur' = Event("disconnect", c, <<>>)
    /\ emitted' = <<>>
    /\ UNCHANGED <<env, hist, connVars, reads, writerPc, clients, outbox>>

\* Hub.handle, case disconnect := <-hub.disconnect: close(disconnect.data),
\* which panics on a channel that is closed already; the reader then closes
\* the stream (client.ws.Close()) and ends
HubDisconnect(c) ==
    /\ Running
    /\ HubAtSelect
    /\ readerPc[c] = "sendDisc"
    /\ IF dataClosed[c]
       THEN /\ hubPc' = "panic"
            /\ UNCHANGED dataClosed
       ELSE /\ dataClosed' = [dataClosed EXCEPT ![c] = TRUE]
            /\ UNCHANGED hubPc
    /\ readerPc' = [readerPc EXCEPT ![c] = "done"]
    /\ cur' = Event("disconnect", c, <<>>)
    /\ emitted' = <<>>
    /\ UNCHANGED <<env, hist, connVars, reads, writerPc, clients, outbox>>

\* Hub.handle, case message := <-hub.messagesChannel, for the frame
\* contents: hub.handleMessage runs up to its first channel send; the
\* reader goes back to reading
HubMessage(c, contents) ==
    /\ Running
    /\ HubAtSelect
    /\ readerPc[c] = "sendMsg"
    /\ contents \in frames
    /\ NonEmpty(contents)
    /\ Observed => contents = hist.pending[c][Len(hist.pending[c])]
    /\ Record([hist EXCEPT !.pending[c] = Tail(@)])
    /\ LET port == getPortFromAddress(addr[c])
       IN  \E usersList \in IF port.ok /\ contents = listLit
                            THEN getAllUsersExcept(port.val) ELSE {<<>>} :
             LET h == handleMessage(c, contents, usersList)
             IN  /\ outbox' = h.sends
                 /\ hubPc' = IF h.disc THEN "sendDisconnect"
                             ELSE IF h.sends = <<>> THEN "select" ELSE "send"
    /\ cur' = Event("message", c, contents)
    /\ emitted' = <<>>
    /\ readerPc' = [readerPc EXCEPT ![c] = "read"]
    /\ UNCHANGED <<env, connVars, reads, writerPc, dataClosed, clients>>

\* the hub's pending "client.data <- frame" can complete: the channel is
\* open and the client's writer is at its receive
CanSend(to) == ~dataClosed[to] /\ writerPc[to] = "recv"

\* a handler's "client.data <- frame" together with Hub.write's receive;
\* after its last send the handler returns to the select
HubSend ==
    /\ Running
    /\ hubPc = "send"
    /\ CanSend(Head(outbox).to)
    /\ writerPc' = [writerPc EXCEPT ![Head(outbox).to] = "write"]
    /\ emitted' = Append(emitted, Head(outbox))
    /\ outbox' = Tail(outbox)
    /\ hubPc' = IF Tail(outbox) = <<>> THEN "select" ELSE "send"
    /\ UNCHANGED <<env, hist, connVars, readerVars, dataClosed, clients, cur>>

\* a handler's "client.data <- frame" on a closed channel: the hub panics
HubSendClosed ==
    /\ Running
    /\ hubPc = "send"
    /\ dataClosed[Head(outbox).to]
    /\ hubPc' = "panic"
    /\ UNCHANGED <<env, hist, connVars, readerVars, writerPc, dataClosed, clients,
                   outbox, cur, emitted>>

\* Hub.write: client.ws.WriteMessage(1, "server: " + message) returns (its
\* error on a closed stream is ignored) and the writer is back at its receive
WriterWrite(c) ==
    /\ Running
    /\ writerPc[c] = "write"
    /\ writerPc' = [writerPc EXCEPT ![c] = "recv"]
    /\ UNCHANGED <<env, hist, connVars, readerVars, dataClosed, clients, hubPc, outbox,
                   cur, emitted>>

\* Hub.write: the receive on the closed client.data returns !ok
WriterExit(c) ==
    /\ Running
    /\ writerPc[c] = "recv"
    /\ dataClosed[c]
    /\ writerPc' = [writerPc EXCEPT ![c] = "done"]
    /\ UNCHANGED <<env, hist, connVars, readerVars, dataClosed, clients, hubPc, outbox,
                   cur, emitted>>

Next ==
    \/ \E c \in Conns : Accept(c)
    \/ \E c \in Conns, a \in peers : HubConnect(c, a)
    \/ \E c \in Conns, empty \in BOOLEAN : ReaderRead(c, empty)
    \/ \E c \in Conns : ReaderError(c)
    \/ \E c \in Conns : HubDisconnect(c)
    \/ \E c \in Conns, contents \in frames : HubMessage(c, contents)
    \/ HubSend
    \/ HubSendClosed
    \/ \E c \in Conns : WriterWrite(c)
    \/ \E c \in Conns : WriterExit(c)

Spec == Init /\ [][Next]_vars

\* the hub under listings
InitList == InitWith("list")

SpecList == InitList /\ [][Next]_vars

\* the hub under listings, with peers that share a source port
InitPeers == InitWith("peers")

SpecPeers == InitPeers /\ [][Next]_vars

\* the hub with the histories of what each reader read and each handler did
InitFifo == InitWith("fifo")

SpecFifo == InitFifo /\ [][Next]_vars

\* --- The relay handler on its own ---
\*
\* hub.parseRelayString looks at the frame, the sender's address and the
\* registry only.  It is run from the states in which the peers at
\* 10.0.0.1:51 and 10.0.0.1:62 have connected (slots 1 and 2, NumConns >= 2),
\* one of them (s) has read a frame and is at
\* "hub.messagesChannel <- ...", and the other has either disconnected
\* already or not; the handler then runs to its end.
InitRelay ==
    \E s \in {1, 2}, gone \in BOOLEAN :
        LET o == 3 - s
        IN  /\ traffic = "relay"
            /\ connPc = [c \in Conns |-> IF c <= 2 THEN "open" ELSE "idle"]
            /\ addr = [c \in Conns |->
                         IF c = 1 THEN addrP51 ELSE IF c = 2 THEN addrP62 ELSE <<>>]
            /\ readerPc = [c \in Conns |->
                             IF c = s THEN "sendMsg"
                             ELSE IF c = o THEN (IF gone THEN "done" ELSE "read")
                             ELSE "none"]
            /\ reads = 1
            /\ writerPc = [c \in Conns |-> IF c <= 2 THEN "recv" ELSE "none"]
            /\ dataClosed = [c \in Conns |-> c = o /\ gone]
            /\ clients = [p \in {51, 62} |-> IF p = 51 THEN 1 ELSE 2]
            /\ hubPc = "select"
            /\ outbox = <<>>
            /\ cur = IF gone THEN Event("disconnect", o, <<>>)
                             ELSE Event("connect", 2, <<>>)
            /\ emitted = <<>>
            /\ hist = noHist

NextRelay ==
    \/ \E c \in Conns, contents \in frames : HubMessage(c, contents)
    \/ HubSend
    \/ HubSendClosed
    \/ \E c \in Conns : WriterWrite(c)
    \/ \E c \in Conns : WriterExit(c)

SpecRelay == InitRelay /\ [][NextRelay]_vars

\* ------------------------------------------------------------------------
\* Vocabulary of the properties

\* the identity of a peer address, read off the address by hand
identityOf(a) ==
    CASE a = addrP51 -> 51
      [] a = addrQ51 -> 51
      [] a = addrP62 -> 62
      [] OTHER -> -1

\* "51", "62"
decimalOf(n) ==
    CASE n = 51 -> S(<<"5", "1">>)
      [] n = 62 -> S(<<"6", "2">>)
      [] OTHER -> <<>>

\* the hub has received c's Connect event / c's Disconnect event
ConnectProcessed(c) == connPc[c] = "open"

DisconnectProcessed(c) == readerPc[c] = "done"

\* the whole output of the running (or last) handler: the sends it has
\* made and the sends it still has to make
handlerSends == emitted \o outbox

\* this step is the hub receiving an event
HubReceives ==
    \E c \in Conns :
        \/ connPc[c] = "connecting" /\ connPc'[c] = "open"
        \/ readerPc[c] = "sendDisc" /\ readerPc'[c] = "done"
        \/ readerPc[c] = "sendMsg" /\ readerPc'[c] = "read"

\* the hub has handled the message contents of client c and is back at its select
Handled(c, contents) ==
    /\ cur = Event("message", c, contents)
    /\ hubPc = "select"

\* ------------------------------------------------------------------------
\* C1.  Registry invariant: an identity is a key of hub.clients exactly
\* when the Connect event of a client with that identity has been
\* processed and that client's Disconnect event has not.
C1_RegistryInvariant ==
    /\ \A c \in Conns :
         ConnectProcessed(c) /\ identityOf(addr[c]) > 0 /\ ~DisconnectProcessed(c)
            => identityOf(addr[c]) \in DOMAIN clients
    /\ \A p \in DOMAIN clients :
         \E c \in Conns :
            /\ ConnectProcessed(c)
            /\ identityOf(addr[c]) = p
            /\ ~DisconnectProcessed(c)

\* ------------------------------------------------------------------------
\* C2.  After the Connect event of a client whose address does not resolve
\* to an identity, the client is not in the registry, its outbound queue is
\* closed, and the hub is still serving events (it is at its select or in a
\* handler's send, not stuck).
C2_BadAddressConnectDiscarded ==
    \A c \in Conns :
        ConnectProcessed(c) /\ identityOf(addr[c]) < 0
            => /\ \A p \in DOMAIN clients : clients[p] # c
               /\ dataClosed[c]
               /\ hubPc \in {"select", "send"}

\* ------------------------------------------------------------------------
\* C3.  The hub never waits in a send on a client's outbound queue: when a
\* handler is at "client.data <- frame", the send completes at once.
HubBlockedOnSend ==
    /\ hubPc = "send"
    /\ ~dataClosed[Head(outbox).to]
    /\ writerPc[Head(outbox).to] # "recv"

C3_HubNeverBlocksOnSend == ~HubBlockedOnSend

\* ------------------------------------------------------------------------
\* C4.  The fan-outs of two relays never interleave: the hub receives an
\* event only when the handler of the event before has made all its sends,
\* and between two receptions every completed send is the next pending
\* send of that one handler, so each destination gets each relay's frames
\* whole and in the order the hub received the relays.
C4_RelaysDoNotInterleave ==
    [][ /\ HubReceives => hubPc = "select" /\ outbox = <<>>
        /\ ~HubReceives /\ emitted' # emitted
              => /\ outbox # <<>>
                 /\ emitted' = Append(emitted, Head(outbox))
                 /\ outbox' = Tail(outbox)
                 /\ cur' = cur ]_vars

\* the hub is in the middle of the fan-out of a relay to 51 and 62 (51's
\* frame is out, 62's is pending) while another client's frame waits at
\* hub.messagesChannel
C4_Witness ==
    /\ hubPc = "send"
    /\ cur.kind = "message"
    /\ cur.contents = frameRelay5162
    /\ Len(emitted) = 1
    /\ Len(outbox) = 1
    /\ emitted[1].to # outbox[1].to
    /\ \E d \in Conns : d # cur.client /\ readerPc[d] = "sendMsg"

\* ------------------------------------------------------------------------
\* C5.  A well-formed relay from s with the single destination 51, where
\* 51 is in the registry for a client other than s: once the handler has
\* ended, exactly one frame "<identity of s>-> yo" went to that client's
\* queue, and nothing to s's.
C5_SingleRelayDelivered ==
    \A s \in Conns :
        /\ cur = Event("message", s, frameRelay51)
        /\ hubPc \in {"select", "panic"}
        /\ 51 \in DOMAIN clients
        /\ clients[51] # s
        => emitted = <<Send(clients[51],
                            Cat(Cat(decimalOf(identityOf(addr[s])), arrow),
                                S(<<"y", "o">>)))>>

\* ------------------------------------------------------------------------
\* C6.  A well-formed relay whose single destination token names an
\* identity that is not in the registry: the handler's whole output is
\* "userid not found: <token>" to the sender, and the handler leaves the
\* registry as it is.
unregisteredReply(contents) ==
    CASE contents = frameRelay51 /\ 51 \notin DOMAIN clients ->
            <<Cat(errNotFound, S(<<"5", "1">>))>>
      [] contents = frameRelay9999 /\ 9999 \notin DOMAIN clients ->
            <<Cat(errNotFound, S(<<"9", "9", "9", "9">>))>>
      [] OTHER -> <<>>

C10_IdAnswersIdentity ==
    /\ \A c \in Conns :
         cur = Event("connect", c, <<>>) /\ identityOf(addr[c]) > 0
            => identityOf(addr[c]) \in DOMAIN clients /\ clients[identityOf(addr[c])] = c
    /\ \A c \in Conns :
         cur = Event("message", c, idLit)
            => /\ handlerSends = <<Send(c, decimalOf(identityOf(addr[c])))>>
               /\ hubPc \in {"select", "send"}

\* a second connection's "id" was answered after the first one's events
C10_Witness ==
    /\ Handled(2, idLit)
    /\ emitted = <<Send(2, S(<<"6", "2">>))>>
    /\ DisconnectProcessed(1)

\* ------------------------------------------------------------------------
\* The relay handler's properties (SpecRelay)

\* the frame a relay of the given body from client s delivers
relayedFrom(s, body) == Cat(Cat(decimalOf(identityOf(addr[s])), arrow), body)

\* ------------------------------------------------------------------------
\* C7.  A relay with 256 destination tokens, all naming the registered
\* identity 51, is rejected: the handler's whole output is "max receivers
\* per message exceeded" to the sender, and the hub goes on.  A relay with
\* 255 such tokens is not rejected by this check: the handler's output is
\* the 255 deliveries to 51's client.
C7_ReceiverLimit ==
    /\ cur.kind = "message" /\ cur.contents = frameReceiversOver
          => /\ handlerSends = <<Send(cur.client, errReceivers)>>
             /\ hubPc \in {"select", "send"}
    /\ cur.kind = "message" /\ cur.contents = frameReceiversMax
          => /\ Len(handlerSends) = maxReceiversPerMessage
             /\ \A i \in 1..Len(handlerSends) :
                  handlerSends[i]
                    = Send(clients[51], relayedFrom(cur.client, S(<<"h", "i">>)))

\* 62's relay to 256 times 51 was rejected while 51's client was connected
C7_Witness ==
    /\ Handled(2, frameReceiversOver)
    /\ Len(Split(TrimPrefix(Split(frameReceiversOver, ",")[1], Cat(relayBar, usersEq)), ";"))
         = maxReceiversPerMessage + 1
    /\ emitted = <<Send(2, errReceivers)>>
    /\ clients[51] = 1
    /\ ~dataClosed[1]

\* ------------------------------------------------------------------------
\* C8.  A relay to 51 with a body of 1,024,001 bytes is rejected: the
\* handler's whole output is "message body can't exceed 1024kb" to the
\* sender.  With a body of exactly 1,024,000 bytes the relay passes the
\* size check: the handler's whole output is the delivery of the body to
\* 51's client, which fails only when that client's queue is closed.
C8_BodyLimit ==
    /\ cur.kind = "message" /\ cur.contents = frameBodyOver
          => /\ handlerSends = <<Send(cur.client, errSize)>>
             /\ hubPc \in {"select", "send"}
    /\ cur.kind = "message" /\ cur.contents = frameBodyMax
          => /\ handlerSends
                  = <<Send(clients[51], relayedFrom(cur.client, bodyOf(maxBodySize)))>>
             /\ hubPc = "panic" => dataClosed[clients[51]]

\* 62's relay of exactly 1,024,000 bytes was delivered to 51's client
C8_Witness ==
    /\ Handled(2, frameBodyMax)
    /\ Len(emitted) = 1
    /\ emitted[1].to = 1
    /\ ByteLen(TrimPrefix(emitted[1].frame, Cat(S(<<"6", "2">>), arrow))) = maxBodySize

\* ------------------------------------------------------------------------
\* C9.  Relay validation rejects on the first failing check, in the order
\* field count, "users=" prefix, "body=" prefix, receiver count, body size:
\* for each malformed relay the handler's whole output is the one rejection
\* of its first failing check, to the sender.  "relay|body=x" yields "relay
\* message should contain users and body fields".
firstRejection(contents) ==
    CASE contents = frameBodyOnly -> errFields
      [] contents = frameThreeFields -> errFields
      [] contents = frameNoUsers -> errUsers
      [] contents = frameNoBody -> errBody
      [] contents = frameManyAndLarge -> errReceivers
      [] contents = frameBodyOver -> errSize
      [] OTHER -> <<>>

C9_ValidationOrder ==
    cur.kind = "message" /\ firstRejection(cur.contents) # <<>>
        => /\ handlerSends = <<Send(cur.client, firstRejection(cur.contents))>>
           /\ hubPc \in {"select", "send"}

\* "relay|body=x" from 51 was answered with the field-count rejection while
\* 62's client was connected
C9_Witness ==
    /\ Handled(1, frameBodyOnly)
    /\ emitted = <<Send(1, errFields)>>
    /\ ConnectProcessed(2)
    /\ ~DisconnectProcessed(2)

\* ------------------------------------------------------------------------
\* C11.  The reply to "list" is one frame to the requester: "users list: \n"
\* followed by one line "<index>) <identity>\n" per listed client.  None of
\* the listed identities is the requester's own, and their number is the
\* number of keys of hub.clients minus one.

\* the identities a listing frame enumerates, in order
listedIdentities(frame) ==
    LET lines == Split(TrimPrefix(frame, listHead), "\n")
    IN  [i \in 1..(Len(lines) - 1) |->
            Atoi(TrimPrefix(Split(lines[i], ")")[2], S(<<" ">>))).val]

answerOf(c, contents) ==
    CASE contents = idLit -> decimalOf(identityOf(addr[c]))
      [] contents = frameHello -> errCommand
      [] OTHER -> <<>>

C12_PerSourceFifo ==
    [][ \A c \in Conns :
          /\ readerPc[c] = "sendMsg" /\ readerPc'[c] = "read"
                => /\ hist.pending[c] # <<>>
                   /\ cur' = Event("message", c, Head(hist.pending[c]))
                   /\ outbox = <<>>
          /\ ( /\ Len(emitted') = Len(emitted) + 1
               /\ cur.client = c
               /\ emitted'[Len(emitted')].to = c
               /\ answerOf(c, cur.contents) # <<>> )
                => emitted'[Len(emitted')].frame = answerOf(c, cur.contents) ]_vars

\* the answer to 51's "id" is on its way while its reader waits with the
\* next frame, "hello", and another connection is open
C12_Witness ==
    /\ cur = Event("message", 1, idLit)
    /\ emitted = <<Send(1, S(<<"5", "1">>))>>
    /\ hist.pending[1] = <<frameHello>>
    /\ readerPc[1] = "sendMsg"
    /\ ConnectProcessed(2)

\* ------------------------------------------------------------------------
\* C13.  Under fair scheduling a read error on a client's connection leads
\* to the hub processing the client's Disconnect, the client's queue closed
\* and its writer terminated.  Each of the three needs a step of the hub
\* goroutine, and fair scheduling gives a step only to a goroutine that can
\* take one.  So the claim needs: while a reader holds a Disconnect for the
\* hub, the hub goroutine has not stopped for good.

\* Hub.handle has stopped for good: it waits at "hub.disconnect <- ..." in
\* its own connect case or in handleMessage, a send only Hub.handle itself
\* could receive, or a panic has ended it.  No action of the hub is enabled
\* in such a state, and none of the other goroutines changes hubPc.
HubStopped == hubPc \in {"sendDisconnect", "panic"}

C13_ReadErrorEndsWriter ==
    \A c \in Conns : readerPc[c] = "sendDisc" => ~HubStopped

\* ------------------------------------------------------------------------
\* C14.  Every client's outbound queue is closed at most once: each
\* Disconnect the hub receives finds the client's queue open and closes it
\* (close(disconnect.data) never runs on a closed channel), a queue changes
\* only in such a step, and a closed queue never opens again.

\* this step is the hub receiving c's Disconnect event and running
\* close(disconnect.data): the queue closes, or the close panics
HubReceivesDisconnect(c) ==
    /\ HubAtSelect
    /\ readerPc[c] = "sendDisc"
    /\ cur' = Event("disconnect", c, <<>>)
    /\ dataClosed' # dataClosed \/ hubPc' = "panic"

C14_ClosedAtMostOnce ==
    [][\A c \in Conns :
          /\ HubReceivesDisconnect(c) => (~dataClosed[c] /\ dataClosed'[c])
          /\ (dataClosed'[c] # dataClosed[c]) => HubReceivesDisconnect(c)
          /\ dataClosed[c] => dataClosed'[c]]_vars

\* both clients' queues are closed, the second one's after the first one's,
\* and the hub is still at its select
C14_Witness ==
    /\ \A c \in Conns : dataClosed[c] /\ DisconnectProcessed(c)
    /\ cur.kind = "disconnect"
    /\ hubPc = "select"

\* ------------------------------------------------------------------------
\* C15.  A reader emits one Disconnect, on its first read error, and then
\* terminates: it reaches "hub.disconnect <- client" only from a read, stays
\* there until the hub takes the event, and is done from then on, so no
\* Message and no second Disconnect follows.  A frame read successfully
\* becomes a Message exactly when it is not empty: a read either adds a
\* non-empty frame to the frames the reader has for the hub and takes the
\* reader to "hub.messagesChannel <- ...", or changes nothing but the count
\* of reads; and every Message the hub receives is non-empty.

\* this step is a successful ReadMessage
ReaderReads == reads' = reads + 1

C15_ReaderEmits ==
    [][\A c \in Conns :
          /\ (readerPc'[c] = "sendDisc") => (readerPc[c] \in {"read", "sendDisc"})
          /\ (readerPc[c] = "sendDisc") => (readerPc'[c] \in {"sendDisc", "done"})
          /\ (readerPc[c] = "done") => (readerPc'[c] = "done")
          /\ (ReaderReads /\ readerPc'[c] # readerPc[c]) =>
                /\ readerPc[c] = "read" /\ readerPc'[c] = "sendMsg"
                /\ Len(hist'.pending[c]) = Len(hist.pending[c]) + 1
                /\ NonEmpty(hist'.pending[c][Len(hist'.pending[c])])
          /\ (ReaderReads /\ readerPc' = readerPc) => hist' = hist
          /\ (readerPc[c] = "sendMsg" /\ readerPc'[c] = "read") =>
                (cur'.kind = "message" /\ NonEmpty(cur'.contents))]_vars

\* the first client's reader read one frame, an empty one (the hub has
\* received nothing since the client's Connect), then met a read error and
\* is at "hub.disconnect <- client"
C15_Witness ==
    /\ reads = 1
    /\ connPc[2] = "idle"
    /\ hist.pending[1] = <<>>
    /\ cur = Event("connect", 1, <<>>)
    /\ readerPc[1] = "sendDisc"

\* ------------------------------------------------------------------------
\* C16.  Identities are unique among live clients: no two distinct clients
\* whose Connect has been processed and whose Disconnect has not have the
\* same identity, and every such client is the entry of hub.clients under
\* its own identity.

\* c's Connect has been processed with an identity, its Disconnect has not
Live(c) ==
    /\ ConnectProcessed(c)
    /\ identityOf(addr[c]) > 0
    /\ ~DisconnectProcessed(c)

C16_IdentitiesUnique ==
    \A c \in Conns :
        Live(c) =>
            /\ \A d \in Conns :
                  Live(d) /\ identityOf(addr[d]) = identityOf(addr[c]) => d = c
            /\ identityOf(addr[c]) \in DOMAIN clients
            /\ clients[identityOf(addr[c])] = c

\* ------------------------------------------------------------------------
\* C17.  The well-formed relay "relay|users=51;62,body=hi" from s: the
\* tokens are served independently and in list order.  Once the handler
\* has ended its whole output is, for 51 and then for 62, the frame
\* "<identity of s>-> hi" on the queue of the client registered under the
\* token, or "userid not found: <token>" on s's queue when the token is not
\* in the registry.

\* what the relay from s owes the token naming identity k
tokenOutcome(s, k) ==
    IF k \in DOMAIN clients
    THEN Send(clients[k], relayedFrom(s, S(<<"h", "i">>)))
    ELSE Send(s, Cat(errNotFound, decimalOf(k)))

C17_TokensIndependent ==
    \A s \in Conns :
        /\ cur = Event("message", s, frameRelay5162)
        /\ hubPc \in {"select", "panic"}
        => emitted = <<tokenOutcome(s, 51), tokenOutcome(s, 62)>>

\* ------------------------------------------------------------------------
\* C18.  A destination token that is not a base-10 integer is a lookup
\* miss, whatever is registered (here 51 and 62 are): for the well-formed
\* relays with the single token "abc", "" (an empty users field), "51x" or
\* " 62" the handler's whole output is "userid not found: <token>" to the
\* sender, and the hub goes on; in "relay|users=51x;62,body=hi" the token
\* "51x" gets that reply and nothing else, before 62 is served.

\* the token of a relay with one destination token that is no integer
nonIntegerToken(contents) ==
    CASE contents = frameTokenWord -> <<S(<<"a", "b", "c">>)>>
      [] contents = frameTokenNone -> << <<>> >>
      [] contents = frameTokenSuffix -> <<S(<<"5", "1", "x">>)>>
      [] contents = frameTokenSpace -> <<S(<<" ", "6", "2">>)>>
      [] OTHER -> <<>>

C18_NonIntegerTokenMisses ==
    /\ cur.kind = "message" /\ nonIntegerToken(cur.contents) # <<>>
         => /\ handlerSends =
                  <<Send(cur.client, Cat(errNotFound, nonIntegerToken(cur.contents)[1]))>>
            /\ hubPc \in {"select", "send"}
    /\ cur.kind = "message" /\ cur.contents = frameTokenMixed
         => handlerSends =
               <<Send(cur.client, Cat(errNotFound, S(<<"5", "1", "x">>))),
                 tokenOutcome(cur.client, 62)>>

\* 62's client sent "relay|users=51x,body=hi" while 51's client was
\* connected: the handler has ended, its output is the one reply to 62
C18_Witness ==
    /\ Handled(2, frameTokenSuffix)
    /\ emitted = <<Send(2, Cat(errNotFound, S(<<"5", "1", "x">>)))>>
    /\ 51 \in DOMAIN clients
    /\ ~dataClosed[clients[51]]

\* ------------------------------------------------------------------------
\* C19.  The hub never enqueues a frame onto a queue that has been closed:
\* every send a handler makes or is about to make goes to a client whose
\* queue is open, so no relay handled after a client's Disconnect sends to
\* that client.
C19_NoSendOnClosedQueue ==
    cur.kind = "message"
        => \A i \in 1..Len(handlerSends) : ~dataClosed[handlerSends[i].to]

\* ------------------------------------------------------------------------
\* C20.  The hub has received a client's Connect before the client's
\* reader and writer are started, so it never receives a Message or a
\* Disconnect of a client whose Connect it has not received: a reader or
\* writer exists only for a connection whose Connect has been processed,
\* and every step in which the hub takes a client's Message or Disconnect
\* starts in such a state.
C20_ConnectFirst ==
    /\ [](\A c \in Conns :
            readerPc[c] # "none" \/ writerPc[c] # "none" => ConnectProcessed(c))
    /\ [][\A c \in Conns :
            (\/ readerPc[c] = "sendMsg" /\ readerPc'[c] = "read"
             \/ readerPc[c] = "sendDisc" /\ readerPc'[c] = "done")
            => ConnectProcessed(c)]_vars

\* the hub has processed the second client's Disconnect, a Message of the
\* first client waits at the channel, and both were connected before
C20_Witness ==
    /\ cur = Event("disconnect", 2, <<>>)
    /\ readerPc[1] = "sendMsg"
    /\ ConnectProcessed(1)
    /\ ConnectProcessed(2)

=============================================================================
